---- MODULE Spec2Model ----
(***************************************************************************)
(* Job board server (src/src/server.js, src/src/db.js): schema bootstrap,  *)
(* seeding, session authentication, admin gating and application intake    *)
(* with resume uploads.  Passwords and path ids are sequences of           *)
(* one-character strings; form fields, titles and file names, of which     *)
(* only the whitespace matters to the code, are sequences of words and     *)
(* whitespace characters; emails, compared only as wholes, are strings.    *)
(***************************************************************************)
EXTENDS Integers, Sequences, FiniteSets, TLC

VARIABLES
    schema,        \* tables, columns and constraints present in the store
    users,         \* rows of table users
    jobs,          \* rows of table jobs
    applications,  \* rows of table applications
    autoInc,       \* next AUTO_INCREMENT value of each table
    uploads,       \* files in uploadDir: stored filename -> content
    sessions,      \* session store: client cookie -> session data
    now,           \* Date.now(), in milliseconds
    proc,          \* position of start() in the server process
    boots,         \* number of times the process has been started
    req,           \* requests, in order of arrival
    started        \* number of requests that have arrived

vars == <<schema, users, jobs, applications, autoInc, uploads, sessions, now,
          proc, boots, req, started>>

----------------------------------------------------------------------------
(* Bounds of the model *)

MaxRequests == 3
MaxTicks == 1
MaxBoots == 2

Slots == 1..MaxRequests
Clients == {"c1", "c2"}

----------------------------------------------------------------------------
(* Text helpers *)

Whitespace == {" ", "\t", "\n"}

Digits == <<"0", "1", "2", "3", "4", "5", "6", "7", "8", "9">>

IsDigit(c) == \E i \in 1..Len(Digits) : Digits[i] = c

DigitVal(c) == (CHOOSE i \in 1..Len(Digits) : Digits[i] = c) - 1

RECURSIVE DropLeadingWs(_)
DropLeadingWs(s) ==
    IF s # <<>> /\ Head(s) \in Whitespace THEN DropLeadingWs(Tail(s)) ELSE s

RECURSIVE DropTrailingWs(_)
DropTrailingWs(s) ==
    IF s # <<>> /\ s[Len(s)] \in Whitespace
    THEN DropTrailingWs(SubSeq(s, 1, Len(s) - 1))
    ELSE s

\* String.prototype.trim
Trim(s) == DropTrailingWs(DropLeadingWs(s))

NaN == [nan |-> TRUE, val |-> 0]

Num(n) == [nan |-> FALSE, val |-> n]

\* the digits at the front of s, as a number; acc is the value read so far
RECURSIVE DigitPrefix(_, _)
DigitPrefix(s, acc) ==
    IF s # <<>> /\ IsDigit(Head(s))
    THEN DigitPrefix(Tail(s), 10 * acc + DigitVal(Head(s)))
    ELSE acc

\* parseInt(s, 10): leading whitespace skipped, an optional sign, then the
\* longest run of digits; whatever follows the digits is ignored
parseInt(s) ==
    LET t == DropLeadingWs(s)
        signed == t # <<>> /\ Head(t) \in {"+", "-"}
        d == IF signed THEN Tail(t) ELSE t
    IN  IF d = <<>> \/ ~IsDigit(Head(d)) THEN NaN
        ELSE IF signed /\ Head(t) = "-" THEN Num(0 - DigitPrefix(d, 0))
        ELSE Num(DigitPrefix(d, 0))

\* originalname.replace(/\s+/g, '-')
RECURSIVE safeName(_)
safeName(s) ==
    IF s = <<>> THEN <<>>
    ELSE IF Head(s) \in Whitespace THEN <<"-">> \o safeName(DropLeadingWs(s))
    ELSE <<Head(s)>> \o safeName(Tail(s))

\* `${Date.now()}-${safeName}`: the timestamp is all digits, so the pair
\* (timestamp, safe name) determines the string and the string the pair
StoredFilename(t, originalname) == [ts |-> t, name |-> safeName(originalname)]

\* !value for a text value: undefined and '' are both falsy
Missing(s) == s = <<>>

\* what bcryptjs reads of a password: its first 72 bytes (the characters
\* here are one byte each)
bcryptInput(password) ==
    SubSeq(password, 1, IF Len(password) < 72 THEN Len(password) ELSE 72)

\* bcrypt.hash(password, 10): of the password, the hash holds what was read
bcryptHash(password) ==
    [alg |-> "bcrypt", cost |-> 10, of |-> bcryptInput(password)]

\* bcrypt.compare(password, hash)
bcryptCompare(password, hash) == hash.of = bcryptInput(password)

----------------------------------------------------------------------------
(* The store: schema and rows *)

FullSchema ==
    {"users", "jobs", "applications", "applications.user_id", "fk_job", "fk_user"}

\* a store before the first start
EmptyStore ==
    [schema |-> {}, users |-> {}, jobs |-> {}, applications |-> {},
     autoInc |-> [users |-> 1, jobs |-> 1, applications |-> 1]]

AdminEmail == "admin@jobboard.com"

AdminPassword == <<"a", "d", "m", "i", "n", "1", "2", "3">>

Password1 == <<"s", "e", "c", "r", "e", "t", "1">>

\* Password1 with its last character changed
Password2 == <<"s", "e", "c", "r", "e", "t", "2">>

ShortPassword == <<"a", "b", "c">>

\* 73 characters
LongPassword1 == [i \in 1..73 |-> IF i = 73 THEN "1" ELSE "x"]

\* LongPassword1 with its last character changed
LongPassword2 == [i \in 1..73 |-> IF i = 73 THEN "2" ELSE "x"]

MsPerSecond == 1000

WeekMs == 7 * 24 * 60 * 60 * MsPerSecond

\* d.toISOString().slice(0, 19).replace('T', ' '): a DATETIME holds whole
\* seconds, the milliseconds are cut off
toMySqlDateTime(ms) == ms \div MsPerSecond

\* new Date(row.deadline), in milliseconds
DateOf(datetime) == datetime * MsPerSecond

\* a store left by an older version of the server: table applications has
\* neither the user_id column nor fk_user; it holds the admin, one user and
\* one job whose deadline is the second the clock starts on
LegacyStore ==
    [schema |-> {"users", "jobs", "applications", "fk_job"},
     users |-> {[id |-> 1, email |-> AdminEmail,
                 password_hash |-> bcryptHash(AdminPassword),
                 name |-> <<"Admin", " ", "User">>, role |-> "admin"],
                [id |-> 2, email |-> "a@x.com",
                 password_hash |-> bcryptHash(Password1),
                 name |-> <<"Alice">>, role |-> "user"]},
     jobs |-> {[id |-> 1, title |-> <<"QA">>, company |-> <<"Acme">>,
                description |-> <<"desc">>, deadline |-> 1]},
     applications |-> {},
     autoInc |-> [users |-> 3, jobs |-> 2, applications |-> 1]]

InitialStores == {EmptyStore, LegacyStore}

\* no session in the store under the client's cookie.  A stored session
\* has its id (req.sessionID), here the number of the request that made it
EmptySession == [userId |-> 0, userRole |-> "none", sid |-> 0]

\* the session a request gets: the stored one its cookie names, or, when
\* the store has none, a new one with an id of its own, stored only once
\* a handler writes to it (saveUninitialized: false)
LoadSession(stored, n) ==
    IF stored.sid = 0 THEN [EmptySession EXCEPT !.sid = n] ELSE stored

\* a plausible slip: the answer is sent and the session is left in the store
DestroyNothing(store, c, sid) == store

\* req.session.destroy(): the store drops the session of that id; the
\* client's cookie names it only if no request has replaced it since
Destroy(store, c, sid) ==
    IF store[c].sid = sid THEN [store EXCEPT ![c] = EmptySession] ELSE store

NoFile == [filename |-> StoredFilename(0, <<>>), present |-> FALSE]

\* a response: the status, the error message, the id in the body (0: none)
NoRes == [status |-> 0, error |-> "", id |-> 0]

Res(status, error) == [status |-> status, error |-> error, id |-> 0]

NoReq ==
    [op |-> "none", pc |-> "idle", client |-> "none", session |-> EmptySession,
     input |-> <<>>, file |-> NoFile, res |-> NoRes]

Init ==
    /\ \E s \in InitialStores :
        /\ schema = s.schema
        /\ users = s.users
        /\ jobs = s.jobs
        /\ applications = s.applications
        /\ autoInc = s.autoInc
    /\ uploads = <<>>
    /\ sessions = [c \in Clients |-> EmptySession]
    /\ now = MsPerSecond
    /\ proc = "initDb_users"
    /\ boots = 1
    /\ req = [r \in Slots |-> NoReq]
    /\ started = 0

----------------------------------------------------------------------------
(* start(): initDb, seedData, listen *)

\* start()'s catch: console.error, process.exit(1)
Exit == proc' = "exited"

\* CREATE TABLE IF NOT EXISTS users
InitDbUsers ==
    /\ proc = "initDb_users"
    /\ schema' = schema \cup {"users"}
    /\ proc' = "initDb_jobs"
    /\ UNCHANGED <<users, jobs, applications, autoInc, uploads, sessions, now,
                   boots, req, started>>

\* CREATE TABLE IF NOT EXISTS jobs
InitDbJobs ==
    /\ proc = "initDb_jobs"
    /\ schema' = schema \cup {"jobs"}
    /\ proc' = "initDb_applications"
    /\ UNCHANGED <<users, jobs, applications, autoInc, uploads, sessions, now,
                   boots, req, started>>

\* CREATE TABLE IF NOT EXISTS applications: a new table has the user_id
\* column and fk_job, an existing one is left as it is
InitDbApplications ==
    /\ proc = "initDb_applications"
    /\ schema' = IF "applications" \in schema THEN schema
                 ELSE schema \cup {"applications", "applications.user_id", "fk_job"}
    /\ proc' = "ensureColumn"
    /\ UNCHANGED <<users, jobs, applications, autoInc, uploads, sessions, now,
                   boots, req, started>>

\* ensureColumn('applications', 'user_id', 'INT NULL')
ensureColumn ==
    /\ proc = "ensureColumn"
    /\ schema' = IF "applications.user_id" \in schema THEN schema
                 ELSE schema \cup {"applications.user_id"}
    /\ proc' = "ensureFk"
    /\ UNCHANGED <<users, jobs, applications, autoInc, uploads, sessions, now,
                   boots, req, started>>

\* an error of the store or of the file system: its code, and whether its
\* message includes 'already exists'
Err(code) == [code |-> code, alreadyExists |-> FALSE]

NoError == Err("")

\* the store's answer to ALTER TABLE applications ADD CONSTRAINT fk_user
\* FOREIGN KEY (user_id) REFERENCES users(id)
AddFkUser(s) ==
    IF "fk_user" \in s
    THEN Err("ER_FK_DUP_NAME")
    ELSE IF "applications.user_id" \notin s
    THEN Err("ER_KEY_COLUMN_DOES_NOT_EXITS")
    ELSE NoError

\* a plausible slip: only the index error code is tolerated
ToleratedOnlyKeyName(err) == err.code = "ER_DUP_KEYNAME"

\* ensureFk's catch: the errors treated as "the constraint is already there"
Tolerated(err) ==
    \/ err.code = "ER_DUP_KEYNAME"
    \/ err.code = "ER_FK_DUP_NAME"
    \/ err.alreadyExists

\* ensureFk('applications', 'fk_user', ...)
ensureFk ==
    /\ proc = "ensureFk"
    /\ LET err == AddFkUser(schema)
       IN  IF err = NoError
           THEN schema' = schema \cup {"fk_user"} /\ proc' = "seed_admin"
           ELSE IF Tolerated(err)
           THEN schema' = schema /\ proc' = "seed_admin"
           ELSE schema' = schema /\ Exit
    /\ UNCHANGED <<users, jobs, applications, autoInc, uploads, sessions, now,
                   boots, req, started>>

\* a plausible slip: the column is declared without UNIQUE
NeverViolated(rows, email) == FALSE

\* column email of users: VARCHAR(255) NOT NULL UNIQUE
UniqueEmailViolated(rows, email) == \E u \in rows : u.email = email

\* seedData, first half: the default admin when no user has role admin
SeedAdmin ==
    /\ proc = "seed_admin"
    /\ IF \E u \in users : u.role = "admin"
       THEN proc' = "seed_jobs" /\ UNCHANGED <<users, autoInc>>
       ELSE IF UniqueEmailViolated(users, AdminEmail)
       THEN Exit /\ UNCHANGED <<users, autoInc>>
       ELSE /\ users' = users \cup
                  {[id |-> autoInc.users, email |-> AdminEmail,
                    password_hash |-> bcryptHash(AdminPassword),
                    name |-> <<"Admin", " ", "User">>, role |-> "admin"]}
            /\ autoInc' = [autoInc EXCEPT !.users = @ + 1]
            /\ proc' = "seed_jobs"
    /\ UNCHANGED <<schema, jobs, applications, uploads, sessions, now, boots,
                   req, started>>

\* seedData, second half: two sample jobs when there is no job; then listen
SeedJobs ==
    /\ proc = "seed_jobs"
    /\ IF jobs # {}
       THEN UNCHANGED <<jobs, autoInc>>
       ELSE /\ jobs' =
                  {[id |-> autoInc.jobs, title |-> <<"Frontend", " ", "Engineer">>,
                    company |-> <<"Acme", " ", "Corp">>,
                    description |-> <<"Build UI components and improve UX.">>,
                    deadline |-> toMySqlDateTime(now + WeekMs)],
                   [id |-> autoInc.jobs + 1, title |-> <<"Backend", " ", "Developer">>,
                    company |-> <<"Globex">>,
                    description |-> <<"Work on APIs and database performance.">>,
                    deadline |-> toMySqlDateTime(now + 2 * WeekMs)]}
            /\ autoInc' = [autoInc EXCEPT !.jobs = @ + 2]
    /\ proc' = "listening"
    /\ UNCHANGED <<schema, users, applications, uploads, sessions, now, boots,
                   req, started>>

\* a request the process was handling when it stopped is never answered
Abort(q) == IF q.pc \in {"idle", "done"} THEN q ELSE [q EXCEPT !.pc = "aborted"]

\* the process is stopped and started again: the store and the upload
\* directory stay, the sessions (held in memory) are gone
Restart ==
    /\ boots < MaxBoots
    /\ boots' = boots + 1
    /\ proc' = "initDb_users"
    /\ sessions' = [c \in Clients |-> EmptySession]
    /\ req' = [r \in Slots |-> Abort(req[r])]
    /\ UNCHANGED <<schema, users, jobs, applications, autoInc, uploads, now,
                   started>>

\* a millisecond passes
Tick ==
    /\ now < MsPerSecond + MaxTicks
    /\ now' = now + 1
    /\ UNCHANGED <<schema, users, jobs, applications, autoInc, uploads,
                   sessions, proc, boots, req, started>>

----------------------------------------------------------------------------
(* Requests.  Request number k is req[k].  express-session gives each      *)
(* request its own copy of the client's session, read from the session     *)
(* store as the request arrives, and writes the copy back when the         *)
(* response ends only if the handler changed it.                           *)

CanAccept == proc = "listening" /\ started < MaxRequests

Arrive(op, c, input, pc, res) ==
    /\ CanAccept
    /\ started' = started + 1
    /\ req' = [req EXCEPT ![started + 1] =
                  [op |-> op, pc |-> pc, client |-> c,
                   session |-> LoadSession(sessions[c], started + 1),
                   input |-> input, file |-> NoFile, res |-> res]]

At(r, op, pc) == proc = "listening" /\ req[r].op = op /\ req[r].pc = pc

Respond(r, res) == req' = [req EXCEPT ![r].pc = "done", ![r].res = res]

Goto(r, pc) == req' = [req EXCEPT ![r].pc = pc]

\* NODE_ENV === 'production'
Production == FALSE

\* the error handler: err.status || 500, and err.message unless in production
ErrorHandler(err) ==
    Res(500, IF Production THEN "Internal server error" ELSE err.code)

RegisterBodies ==
    {[email |-> "a@x.com", password |-> Password1, name |-> <<"Alice">>],
     [email |-> "a@x.com", password |-> ShortPassword, name |-> <<"Alice">>],
     [email |-> "a@x.com", password |-> Password1, name |-> <<>>],
     [email |-> "a@x.com", password |-> LongPassword1, name |-> <<"Alice">>],
     [email |-> AdminEmail, password |-> Password2, name |-> <<"Eve">>]}

\* a body that passes the handler's two tests
ValidRegistration(body) ==
    body.email # "" /\ ~Missing(body.name) /\ Len(body.password) >= 6

\* POST /api/auth/register, up to the first query
RegisterStart(c, body) ==
    /\ IF body.email = "" \/ Missing(body.password) \/ Missing(body.name)
       THEN Arrive("register", c, body, "done", Res(400, "Missing required fields"))
       ELSE IF Len(body.password) < 6
       THEN Arrive("register", c, body, "done",
                   Res(400, "Password must be at least 6 characters"))
       ELSE Arrive("register", c, body, "register_select", NoRes)
    /\ UNCHANGED <<schema, users, jobs, applications, autoInc, uploads,
                   sessions, now, proc, boots>>

\* SELECT id FROM users WHERE email = ?
RegisterSelect(r) ==
    /\ At(r, "register", "register_select")
    /\ IF \E u \in users : u.email = req[r].input.email
       THEN Respond(r, Res(400, "Email already registered"))
       ELSE Goto(r, "register_insert")
    /\ UNCHANGED <<schema, users, jobs, applications, autoInc, uploads,
                   sessions, now, proc, boots, started>>

\* bcrypt.hash, INSERT INTO users, the session and the 201
RegisterInsert(r) ==
    /\ At(r, "register", "register_insert")
    /\ LET body == req[r].input
           id == autoInc.users
           session == [userId |-> id, userRole |-> "user",
                       sid |-> req[r].session.sid]
       IN  IF UniqueEmailViolated(users, body.email)
           THEN /\ Respond(r, ErrorHandler(Err("ER_DUP_ENTRY")))
                /\ UNCHANGED <<users, autoInc, sessions>>
           ELSE /\ users' = users \cup
                      {[id |-> id, email |-> body.email,
                        password_hash |-> bcryptHash(body.password),
                        name |-> body.name, role |-> "user"]}
                /\ autoInc' = [autoInc EXCEPT !.users = @ + 1]
                /\ req' = [req EXCEPT ![r].pc = "done", ![r].session = session,
                             ![r].res = [status |-> 201, error |-> "", id |-> id]]
                /\ sessions' = [sessions EXCEPT ![req[r].client] = session]
    /\ UNCHANGED <<schema, jobs, applications, uploads, now, proc, boots, started>>

LoginBodies ==
    {[email |-> "a@x.com", password |-> Password1],
     [email |-> "a@x.com", password |-> Password2],
     [email |-> "a@x.com", password |-> <<>>],
     [email |-> "a@x.com", password |-> LongPassword2],
     [email |-> "b@x.com", password |-> Password1],
     [email |-> AdminEmail, password |-> AdminPassword]}

\* POST /api/auth/login, up to the query
LoginStart(c, body) ==
    /\ IF body.email = "" \/ Missing(body.password)
       THEN Arrive("login", c, body, "done", Res(400, "Email and password required"))
       ELSE Arrive("login", c, body, "login_select", NoRes)
    /\ UNCHANGED <<schema, users, jobs, applications, autoInc, uploads,
                   sessions, now, proc, boots>>

\* SELECT ... FROM users WHERE email = ?, bcrypt.compare, the session
LoginVerify(r) ==
    /\ At(r, "login", "login_select")
    /\ LET body == req[r].input
           found == {u \in users : u.email = body.email}
       IN  IF found = {}
           THEN /\ Respond(r, Res(401, "Invalid email or password"))
                /\ UNCHANGED sessions
           ELSE LET user == CHOOSE u \in found : TRUE
                    session == [userId |-> user.id, userRole |-> user.role,
                                sid |-> req[r].session.sid]
                IN  IF ~bcryptCompare(body.password, user.password_hash)
                    THEN /\ Respond(r, Res(401, "Invalid email or password"))
                         /\ UNCHANGED sessions
                    ELSE /\ req' = [req EXCEPT ![r].pc = "done",
                                      ![r].session = session,
                                      ![r].res = [status |-> 200, error |-> "",
                                                  id |-> user.id]]
                         /\ sessions' = [sessions EXCEPT ![req[r].client] = session]
    /\ UNCHANGED <<schema, users, jobs, applications, autoInc, uploads, now,
                   proc, boots, started>>

\* POST /api/auth/logout: req.session.destroy
Logout(c) ==
    /\ Arrive("logout", c, <<>>, "done", Res(200, ""))
    /\ sessions' = Destroy(sessions, c, sessions[c].sid)
    /\ UNCHANGED <<schema, users, jobs, applications, autoInc, uploads, now,
                   proc, boots>>

\* GET /api/auth/me, up to the query
MeStart(c) ==
    /\ IF sessions[c].userId = 0
       THEN Arrive("me", c, <<>>, "done", Res(401, "Not authenticated"))
       ELSE Arrive("me", c, <<>>, "me_select", NoRes)
    /\ UNCHANGED <<schema, users, jobs, applications, autoInc, uploads,
                   sessions, now, proc, boots>>

\* SELECT ... FROM users WHERE id = ?; a session whose user is gone is destroyed
MeSelect(r) ==
    /\ At(r, "me", "me_select")
    /\ IF \E u \in users : u.id = req[r].session.userId
       THEN /\ Respond(r, [status |-> 200, error |-> "",
                           id |-> req[r].session.userId])
            /\ UNCHANGED sessions
       ELSE /\ Respond(r, Res(401, "User not found"))
            /\ sessions' = Destroy(sessions, req[r].client, req[r].session.sid)
    /\ UNCHANGED <<schema, users, jobs, applications, autoInc, uploads, now,
                   proc, boots, started>>

----------------------------------------------------------------------------
(* Admin-gated operations *)

AdminOps == {"createJob", "listApplications"}

NoDate == [given |-> FALSE, valid |-> FALSE, ms |-> 0]

BadDate == [given |-> TRUE, valid |-> FALSE, ms |-> 0]

DateAt(ms) == [given |-> TRUE, valid |-> TRUE, ms |-> ms]

\* isValidDate(value)
isValidDate(value) == value.valid

GoodJob ==
    [title |-> <<"QA", " ">>, company |-> <<"Acme">>, description |-> <<"desc">>,
     deadline |-> DateAt(2 * WeekMs)]

JobBodies ==
    {GoodJob,
     [GoodJob EXCEPT !.deadline = DateAt(MsPerSecond + (MsPerSecond \div 2))],
     [GoodJob EXCEPT !.title = <<" ">>],
     [GoodJob EXCEPT !.company = <<>>],
     [GoodJob EXCEPT !.deadline = BadDate]}

\* a plausible slip: the role kept in the session decides
IsAdminBySession(session, rows) == session.userRole = "admin"

\* requireAdmin's test of SELECT role FROM users WHERE id = ?
IsAdmin(session, rows) ==
    \E u \in rows : u.id = session.userId /\ u.role = "admin"

\* requireAdmin, up to the query
AdminStart(c, op, body) ==
    /\ IF sessions[c].userId = 0
       THEN Arrive(op, c, body, "done", Res(401, "Authentication required"))
       ELSE Arrive(op, c, body, "requireAdmin", NoRes)
    /\ UNCHANGED <<schema, users, jobs, applications, autoInc, uploads,
                   sessions, now, proc, boots>>

\* requireAdmin: the role is read from the store
requireAdmin(r) ==
    /\ proc = "listening"
    /\ req[r].op \in AdminOps
    /\ req[r].pc = "requireAdmin"
    /\ IF IsAdmin(req[r].session, users)
       THEN Goto(r, "handler")
       ELSE Respond(r, Res(403, "Admin access required"))
    /\ UNCHANGED <<schema, users, jobs, applications, autoInc, uploads,
                   sessions, now, proc, boots, started>>

\* POST /api/jobs
CreateJob(r) ==
    /\ At(r, "createJob", "handler")
    /\ LET b == req[r].input
           id == autoInc.jobs
       IN  IF Missing(b.title) \/ Missing(b.company) \/ Missing(b.description)
              \/ ~b.deadline.given
           THEN /\ Respond(r, Res(400, "Missing required fields"))
                /\ UNCHANGED <<jobs, autoInc>>
           ELSE IF Missing(Trim(b.title)) \/ Missing(Trim(b.company))
                   \/ Missing(Trim(b.description))
           THEN /\ Respond(r, Res(400, "Fields cannot be empty"))
                /\ UNCHANGED <<jobs, autoInc>>
           ELSE IF ~isValidDate(b.deadline)
           THEN /\ Respond(r, Res(400, "Invalid deadline format"))
                /\ UNCHANGED <<jobs, autoInc>>
           ELSE /\ jobs' = jobs \cup
                      {[id |-> id, title |-> Trim(b.title),
                        company |-> Trim(b.company),
                        description |-> Trim(b.description),
                        deadline |-> toMySqlDateTime(b.deadline.ms)]}
                /\ autoInc' = [autoInc EXCEPT !.jobs = @ + 1]
                /\ Respond(r, [status |-> 201, error |-> "", id |-> id])
    /\ UNCHANGED <<schema, users, applications, uploads, sessions, now, proc,
                   boots, started>>

\* GET /api/admin/applications
ListApplications(r) ==
    /\ At(r, "listApplications", "handler")
    /\ Respond(r, Res(200, ""))
    /\ UNCHANGED <<schema, users, jobs, applications, autoInc, uploads,
                   sessions, now, proc, boots, started>>

----------------------------------------------------------------------------
(* POST /api/jobs/:id/apply *)

PhoneMax == 50

GoodBody ==
    [name |-> <<"Alice", " ">>, email |-> <<"a@x.com">>,
     phone |-> <<"5", "5", "5">>, coverLetter |-> <<"Hello">>]

NoPhoneBody == [GoodBody EXCEPT !.phone = <<>>]

LongPhoneBody == [GoodBody EXCEPT !.phone = [i \in 1..(PhoneMax + 1) |-> "5"]]

\* no file part in the form
NoUpload == <<>>

GoodInput == [id |-> <<"1">>, body |-> GoodBody, file |-> <<"a", " ", "b">>]

\* the good input, and one input for each way the handler rejects
ApplyInputs ==
    {GoodInput,
     [GoodInput EXCEPT !.id = <<"x">>],
     [GoodInput EXCEPT !.id = <<"7">>],
     [GoodInput EXCEPT !.body = NoPhoneBody],
     [GoodInput EXCEPT !.body = LongPhoneBody],
     [GoodInput EXCEPT !.file = NoUpload],
     [GoodInput EXCEPT !.file = <<"a", "-", "b">>]}

PathIds == {<<"1">>, <<"0">>, <<"-", "1">>, <<"x">>, <<"1", "x">>, <<"7">>}

\* the good input under each kind of :id
IdInputs == {[GoodInput EXCEPT !.id = i] : i \in PathIds}

\* requireAuth
ApplyStart(c, input) ==
    /\ IF sessions[c].userId = 0
       THEN Arrive("apply", c, input, "done", Res(401, "Authentication required"))
       ELSE Arrive("apply", c, input, "upload", NoRes)
    /\ UNCHANGED <<schema, users, jobs, applications, autoInc, uploads,
                   sessions, now, proc, boots>>

\* upload.single('resume'): the file is written under the name the storage's
\* filename callback gives it; a file already there is overwritten
ApplyUpload(r) ==
    /\ At(r, "apply", "upload")
    /\ IF req[r].input.file = NoUpload
       THEN Goto(r, "handler") /\ UNCHANGED uploads
       ELSE LET filename == StoredFilename(now, req[r].input.file)
            IN  /\ uploads' = (filename :> r) @@ uploads
                /\ req' = [req EXCEPT ![r].pc = "handler",
                             ![r].file = [filename |-> filename, present |-> TRUE]]
    /\ UNCHANGED <<schema, users, jobs, applications, autoInc, sessions, now,
                   proc, boots, started>>

\* the response of the handler's first failing test, NoRes when all pass
ApplyFailure(jobId, userId, body, hasFile, rows, t) ==
    LET found == {j \in rows : j.id = jobId.val}
    IN  IF jobId.val = 0 \/ jobId.nan THEN Res(400, "Invalid job ID")
        ELSE IF userId = 0 THEN Res(401, "User session not found")
        ELSE IF found = {} THEN Res(404, "Job not found")
        ELSE IF DateOf((CHOOSE j \in found : TRUE).deadline) < t
        THEN Res(400, "Application deadline has passed")
        ELSE IF Missing(body.name) \/ Missing(body.email) \/ Missing(body.phone)
                \/ Missing(body.coverLetter)
        THEN Res(400, "Missing required fields")
        ELSE IF ~hasFile THEN Res(400, "Resume file is required")
        ELSE NoRes

\* a plausible slip: the missing-fields branch forgets the file
UnlinksExceptMissingFields(res) == res.error # "Missing required fields"

\* every rejection of a request that has a file starts with
\* if (req.file) fs.unlinkSync(req.file.path)
UnlinksOnReject(res) == TRUE

Unlinked(files, path) == [p \in DOMAIN files \ {path} |-> files[p]]

\* the handler from parseInt to the INSERT.  fs.unlinkSync throws when the
\* file is not there; in a rejecting branch the throw lands in the handler's
\* catch, which tries again, logs, and passes the error on
ApplyValidate(r) ==
    /\ At(r, "apply", "handler")
    /\ LET q == req[r]
           failure == ApplyFailure(parseInt(q.input.id), q.session.userId,
                                   q.input.body, q.file.present, jobs, now)
       IN  IF failure = NoRes
           THEN Goto(r, "apply_insert") /\ UNCHANGED uploads
           ELSE IF ~q.file.present \/ ~UnlinksOnReject(failure)
           THEN Respond(r, failure) /\ UNCHANGED uploads
           ELSE IF q.file.filename \in DOMAIN uploads
           THEN /\ uploads' = Unlinked(uploads, q.file.filename)
                /\ Respond(r, failure)
           ELSE /\ Respond(r, ErrorHandler(Err("ENOENT")))
                /\ UNCHANGED uploads
    /\ UNCHANGED <<schema, users, jobs, applications, autoInc, sessions, now,
                   proc, boots, started>>

\* the store's answer to INSERT INTO applications: phone is VARCHAR(50),
\* job_id and user_id are foreign keys
InsertApplicationError(row) ==
    IF Len(row.phone) > PhoneMax THEN Err("ER_DATA_TOO_LONG")
    ELSE IF ~\E j \in jobs : j.id = row.job_id THEN Err("ER_NO_REFERENCED_ROW_2")
    ELSE IF row.user_id # 0 /\ ~\E u \in users : u.id = row.user_id
    THEN Err("ER_NO_REFERENCED_ROW_2")
    ELSE NoError

\* INSERT INTO applications and the 201; the catch deletes the file, a
\* failure of that deletion is only logged
ApplyInsert(r) ==
    /\ At(r, "apply", "apply_insert")
    /\ LET q == req[r]
           row == [id |-> autoInc.applications,
                   job_id |-> parseInt(q.input.id).val,
                   user_id |-> q.session.userId,
                   name |-> Trim(q.input.body.name),
                   email |-> Trim(q.input.body.email),
                   phone |-> Trim(q.input.body.phone),
                   cover_letter |-> Trim(q.input.body.coverLetter),
                   resume_path |-> q.file.filename]
           err == InsertApplicationError(row)
       IN  IF err = NoError
           THEN /\ applications' = applications \cup {row}
                /\ autoInc' = [autoInc EXCEPT !.applications = @ + 1]
                /\ Respond(r, Res(201, ""))
                /\ UNCHANGED uploads
           ELSE /\ uploads' = IF q.file.present /\ q.file.filename \in DOMAIN uploads
                              THEN Unlinked(uploads, q.file.filename)
                              ELSE uploads
                /\ Respond(r, ErrorHandler(err))
                /\ UNCHANGED <<applications, autoInc>>
    /\ UNCHANGED <<schema, users, jobs, sessions, now, proc, boots, started>>

----------------------------------------------------------------------------
(* The store's operator.  No route of the server updates or deletes a      *)
(* user; the schema provides for both: role is a column of users, and      *)
(* fk_user clears applications.user_id when a user is deleted.             *)

\* UPDATE users SET role = ? WHERE id = ?
OperatorSetRole(id, role) ==
    /\ \E u \in users : u.id = id /\ u.role # role
    /\ users' = {IF u.id = id THEN [u EXCEPT !.role = role] ELSE u : u \in users}
    /\ UNCHANGED <<schema, jobs, applications, autoInc, uploads, sessions, now,
                   proc, boots, req, started>>

\* DELETE FROM users WHERE id = ?, with fk_user's ON DELETE SET NULL
OperatorDeleteUser(id) ==
    /\ "fk_user" \in schema
    /\ \E u \in users : u.id = id
    /\ users' = {u \in users : u.id # id}
    /\ applications' =
          {IF a.user_id = id THEN [a EXCEPT !.user_id = 0] ELSE a : a \in applications}
    /\ UNCHANGED <<schema, jobs, autoInc, uploads, sessions, now, proc, boots,
                   req, started>>

Operator ==
    \/ \E u \in users, role \in {"user", "admin"} : OperatorSetRole(u.id, role)
    \/ \E u \in users : OperatorDeleteUser(u.id)

----------------------------------------------------------------------------
(* The server *)

Boot ==
    \/ InitDbUsers
    \/ InitDbJobs
    \/ InitDbApplications
    \/ ensureColumn
    \/ ensureFk
    \/ SeedAdmin
    \/ SeedJobs

Register(cs, bodies) ==
    \/ \E c \in cs, body \in bodies : RegisterStart(c, body)
    \/ \E r \in Slots : RegisterSelect(r)
    \/ \E r \in Slots : RegisterInsert(r)

Login(cs, bodies) ==
    \/ \E c \in cs, body \in bodies : LoginStart(c, body)
    \/ \E r \in Slots : LoginVerify(r)

Me(cs) ==
    \/ \E c \in cs : MeStart(c)
    \/ \E r \in Slots : MeSelect(r)

Admin(cs, bodies) ==
    \/ \E c \in cs, body \in bodies : AdminStart(c, "createJob", body)
    \/ \E c \in cs : AdminStart(c, "listApplications", <<>>)
    \/ \E r \in Slots : requireAdmin(r)
    \/ \E r \in Slots : CreateJob(r)
    \/ \E r \in Slots : ListApplications(r)

Apply(cs, inputs) ==
    \/ \E c \in cs, input \in inputs : ApplyStart(c, input)
    \/ \E r \in Slots : ApplyUpload(r)
    \/ \E r \in Slots : ApplyValidate(r)
    \/ \E r \in Slots : ApplyInsert(r)

\* the whole server
Next ==
    \/ Boot
    \/ Restart
    \/ Tick
    \/ Register(Clients, RegisterBodies)
    \/ Login(Clients, LoginBodies)
    \/ \E c \in Clients : Logout(c)
    \/ Me(Clients)
    \/ Admin(Clients, JobBodies)
    \/ Apply(Clients, ApplyInputs \cup IdInputs)

Spec == Init /\ [][Next]_vars

\* The specifications below are the server with fewer clients and fewer
\* kinds of request, each with the requests its properties are about.

AdminLogin == [email |-> AdminEmail, password |-> AdminPassword]

\* registrations with valid fields: a new email, and the admin's
ValidRegistrations == {b \in RegisterBodies : ValidRegistration(b)}

\* starts and restarts of the server, with a client that registers, while
\* the store's operator takes the admin role away
NextBoot ==
    \/ Boot
    \/ Restart
    \/ Register({"c1"}, ValidRegistrations)
    \/ \E u \in users : OperatorSetRole(u.id, "user")

SpecBoot == Init /\ [][NextBoot]_vars

\* clients that register, log in and out, and ask who they are
NextAuth ==
    \/ Boot
    \/ Register(Clients, ValidRegistrations)
    \/ Login(Clients, {b \in LoginBodies : b.email = "a@x.com" /\ ~Missing(b.password)}
                      \cup {AdminLogin})
    \/ \E c \in Clients : Logout(c)
    \/ Me(Clients)

SpecAuth == Init /\ [][NextAuth]_vars

\* one client that logs in as the admin and applies
NextApply == Boot \/ Tick \/ Login({"c1"}, {AdminLogin}) \/ Apply({"c1"}, ApplyInputs)

SpecApply == Init /\ [][NextApply]_vars

\* the same, applying under each kind of :id
NextApplyIds == Boot \/ Tick \/ Login({"c1"}, {AdminLogin}) \/ Apply({"c1"}, IdInputs)

SpecApplyIds == Init /\ [][NextApplyIds]_vars

\* one client that logs in as the admin and uses the admin routes, while
\* the store's operator changes roles and deletes users
NextAdmin ==
    \/ Boot
    \/ Login({"c1"}, {AdminLogin})
    \/ Admin({"c1"}, {GoodJob, [GoodJob EXCEPT !.title = <<" ">>]})
    \/ Operator

SpecAdmin == Init /\ [][NextAdmin]_vars

\* one client that registers, logs in and out, asks who it is and uses
\* the gated routes, while the store's operator deletes users
NextSession ==
    \/ Boot
    \/ Register({"c1"}, {b \in ValidRegistrations : b.password = Password1})
    \/ Login({"c1"}, {AdminLogin})
    \/ Logout("c1")
    \/ Me({"c1"})
    \/ Admin({"c1"}, {GoodJob})
    \/ Apply({"c1"}, {GoodInput})
    \/ \E u \in users : OperatorDeleteUser(u.id)

SpecSession == Init /\ [][NextSession]_vars

----------------------------------------------------------------------------
(* Properties *)

Applies == {r \in Slots : req[r].op = "apply"}

Registers == {r \in Slots : req[r].op = "register"}

\* C1: a finished Apply that received a file and was not answered 201 has
\* left no file of its own in the upload directory.
C1_FailedApplyLeavesNoUpload ==
    \A r \in Applies :
        (req[r].pc = "done" /\ req[r].file.present /\ req[r].res.status # 201)
        => ~(/\ req[r].file.filename \in DOMAIN uploads
             /\ uploads[req[r].file.filename] = r)

\* one Apply rejected for a missing phone and one whose INSERT failed, both
\* answered, both files gone
C1_Witness ==
    \E r1, r2 \in Applies :
        /\ req[r1].pc = "done" /\ req[r1].file.present
        /\ req[r1].res = Res(400, "Missing required fields")
        /\ req[r2].pc = "done" /\ req[r2].file.present
        /\ req[r2].res = Res(500, "ER_DATA_TOO_LONG")
        /\ req[r1].file.filename \notin DOMAIN uploads
        /\ req[r2].file.filename \notin DOMAIN uploads

\* C2: table users never holds two rows with the same email.
C2_OneUserPerEmail ==
    \A u1, u2 \in users : u1.email = u2.email => u1 = u2

\* two Register requests with one email that both passed the SELECT: one
\* inserted, the other's INSERT was refused by the store
C2_Witness ==
    \E r1, r2 \in Registers :
        /\ req[r1].input.email = req[r2].input.email
        /\ req[r1].pc = "done" /\ req[r1].res.status = 201
        /\ req[r2].pc = "done" /\ req[r2].res = Res(500, "ER_DUP_ENTRY")

\* C3: of two answered Register requests with the same email and valid
\* fields, which are the only registrations of that email, exactly one is
\* answered 201 and the other 400 'Email already registered', with no user
\* in its response.
C3_SecondRegisterIsConflict ==
    \A r1, r2 \in Registers :
        (/\ r1 # r2
         /\ req[r1].pc = "done" /\ req[r2].pc = "done"
         /\ req[r1].input.email = req[r2].input.email
         /\ ValidRegistration(req[r1].input) /\ ValidRegistration(req[r2].input)
         /\ \A u \in users : u.email = req[r1].input.email
                => u.id \in {req[r1].res.id, req[r2].res.id})
        => \E ok, ko \in {r1, r2} :
              /\ ok # ko
              /\ req[ok].res.status = 201
              /\ req[ko].res = Res(400, "Email already registered")

StoredAdmin(id) == \E u \in users : u.id = id /\ u.role = "admin"

\* C4: a request to an admin route without a session user is answered 401
\* on arrival; one with a session user reaches its handler only in a step
\* at which the store holds that user with role admin, and is answered 403
\* in a step at which it does not.
C4_AdminByStoredRole ==
    [][\A r \in Slots :
          /\ (req[r].op = "none" /\ req'[r].op \in AdminOps)
             => IF req'[r].session.userId = 0
                THEN req'[r].pc = "done" /\ req'[r].res.status = 401
                ELSE req'[r].pc = "requireAdmin"
          /\ (req[r].op \in AdminOps /\ req[r].pc = "requireAdmin"
              /\ req'[r].pc # "requireAdmin")
             => IF StoredAdmin(req[r].session.userId)
                THEN req'[r].pc = "handler"
                ELSE req'[r].pc = "done" /\ req'[r].res.status = 403
          /\ (req[r].op \in AdminOps /\ req'[r].pc = "handler")
             => req[r].pc \in {"requireAdmin", "handler"}]_vars

\* a request whose session still says admin, refused because the store no
\* longer does
C4_Witness ==
    \E r \in Slots :
        /\ req[r].op = "createJob" /\ req[r].pc = "done"
        /\ req[r].session.userRole = "admin" /\ req[r].res.status = 403

AllPresent(q) ==
    /\ ~Missing(q.input.body.name) /\ ~Missing(q.input.body.email)
    /\ ~Missing(q.input.body.phone) /\ ~Missing(q.input.body.coverLetter)
    /\ q.file.present

JobsOf(q) ==
    {j \in jobs : ~parseInt(q.input.id).nan /\ j.id = parseInt(q.input.id).val}

\* C5: an authenticated Apply on an existing job with all four fields and a
\* file is answered 400, adding no row, when the deadline is before the
\* current time, and otherwise 201, adding exactly one row that names the
\* job, the session's user and the stored file; nothing else adds a row.
C5_ApplyOutcome ==
    [][/\ \A r \in Applies :
            LET q == req[r] IN
            (q.session.userId # 0 /\ AllPresent(q) /\ JobsOf(q) # {})
            => /\ (q.pc = "handler" /\ req'[r].pc # "handler")
                  => IF \E j \in JobsOf(q) : DateOf(j.deadline) < now
                     THEN /\ req'[r].pc = "done"
                          /\ req'[r].res.status = 400
                          /\ applications' = applications
                     ELSE req'[r].pc = "apply_insert"
               /\ (q.pc = "apply_insert" /\ req'[r].pc # "apply_insert")
                  => /\ req'[r].res.status = 201
                     /\ \E row \in applications' :
                           /\ row \notin applications
                           /\ applications' = applications \cup {row}
                           /\ row.job_id \in {j.id : j \in JobsOf(q)}
                           /\ row.user_id = q.session.userId
                           /\ row.resume_path = q.file.filename
       /\ applications' # applications
          => \E r \in Applies :
                req[r].pc = "apply_insert" /\ req'[r].res.status = 201]_vars

\* C6: no two uploads are stored under the same filename.
C6_DistinctStoredFilenames ==
    \A r1, r2 \in Applies :
        (r1 # r2 /\ req[r1].file.present /\ req[r2].file.present)
        => req[r1].file.filename # req[r2].file.filename

\* digits only, and not zero
WellFormedPositive(id) ==
    /\ id # <<>>
    /\ \A i \in 1..Len(id) : IsDigit(id[i])
    /\ DigitPrefix(id, 0) > 0

\* C7: an authenticated Apply whose :id is not a well-formed positive
\* identifier never reaches the INSERT and is answered 400 'Invalid job ID'.
C7_MalformedIdRejected ==
    \A r \in Applies :
        (req[r].session.userId # 0 /\ ~WellFormedPositive(req[r].input.id))
        => /\ req[r].pc # "apply_insert"
           /\ req[r].pc = "done" => req[r].res = Res(400, "Invalid job ID")

\* C8: no Apply is answered with the error of the file deletion.
C8_DeletionErrorNeverReported ==
    \A r \in Applies : req[r].pc = "done" => req[r].res.error # "ENOENT"

InitDbSteps ==
    {"initDb_users", "initDb_jobs", "initDb_applications", "ensureColumn",
     "ensureFk"}

\* C9: no step of initDb fails; a run of initDb that completes leaves
\* exactly the full schema; and a run on the full schema, which is every
\* run after a completed one, changes nothing.
C9_InitDbIdempotent ==
    [][(proc \in InitDbSteps) =>
          (/\ proc' # "exited"
           /\ (proc' = "seed_admin") => (schema' = FullSchema)
           /\ (schema = FullSchema) => (schema' = schema))]_vars

\* the second run of initDb has completed; the first one had too, as
\* requests arrived in it
C9_Witness == boots = 2 /\ proc = "seed_admin" /\ started > 0

\* a Login of a registered email is answered in this step
LoginAnswered(r, g) ==
    /\ req[r].op = "login" /\ req[r].pc = "login_select"
    /\ req'[r].pc = "done"
    /\ req[g].pc = "done" /\ req[g].res.status = 201
    /\ req[g].input.email = req[r].input.email

\* the answer is 200 and the session the registered user's when the
\* password is the registered one, 401 and the session as it was otherwise
AnsweredByPassword(r, g) ==
    IF req[r].input.password = req[g].input.password
    THEN /\ req'[r].res = [status |-> 200, error |-> "", id |-> req[g].res.id]
         /\ sessions'[req[r].client] =
               [userId |-> req[g].res.id, userRole |-> "user",
                sid |-> req[r].session.sid]
    ELSE /\ req'[r].res = Res(401, "Invalid email or password")
         /\ sessions' = sessions
         /\ req'[r].session = req[r].session

\* C10: once a Register of an email has been answered 201, a Login with
\* that email is answered 200 with the registered user, and the client's
\* session is set to that user and role user, when its password is the
\* registered one; with any other password it is answered 401 and the
\* session stays as it was.
C10_LoginAfterRegister ==
    [][\A r \in Slots, g \in Registers :
          LoginAnswered(r, g) => AnsweredByPassword(r, g)]_vars

\* the same, for registered passwords of fewer than 72 characters
LoginAfterRegisterUnder72 ==
    [][\A r \in Slots, g \in Registers :
          (LoginAnswered(r, g) /\ Len(req[g].input.password) < 72)
          => AnsweredByPassword(r, g)]_vars

\* after a Register, a Login with its password answered 200 and one with
\* the password's last character changed answered 401
LoginAfterRegisterUnder72_Witness ==
    \E g \in Registers, r1, r2 \in Slots :
        /\ req[g].res.status = 201
        /\ req[r1].op = "login" /\ req[r1].input.email = req[g].input.email
        /\ req[r1].input.password = req[g].input.password
        /\ req[r1].res.status = 200 /\ req[r1].res.id = req[g].res.id
        /\ req[r2].op = "login" /\ req[r2].input.email = req[g].input.email
        /\ req[r2].input.password = Password2
        /\ req[r2].res = Res(401, "Invalid email or password")

\* the operations behind requireAuth and requireAdmin, and CurrentUser
GatedOps == {"apply", "createJob", "listApplications", "me"}

\* request r arrives in this step
Arrives(r) == req[r].op = "none" /\ req'[r].op # "none"

\* request r, a Register or a Login, is answered with success in this step
Succeeds(r) ==
    /\ req[r].op \in {"register", "login"}
    /\ req[r].pc # "done" /\ req'[r].pc = "done"
    /\ req'[r].res.status \in {200, 201}

\* C11: a Logout, and a CurrentUser that finds its session's user gone,
\* remove the session from the store; a session comes into the store only
\* in a step in which a Register or a Login of that client succeeds; and a
\* request to apply, create job, list applications or CurrentUser arriving
\* while the store has no session for its client is answered 401.
C11_DestroyedSessionIs401 ==
    [][\A r \in Slots :
          /\ (Arrives(r) /\ req'[r].op = "logout")
             => sessions'[req'[r].client] = EmptySession
          /\ (req[r].op = "me" /\ req[r].pc = "me_select"
              /\ req'[r].res = Res(401, "User not found"))
             => \A c \in Clients : sessions'[c].sid # req[r].session.sid
          /\ (Arrives(r) /\ req'[r].op \in GatedOps
              /\ sessions[req'[r].client] = EmptySession)
             => (req'[r].pc = "done" /\ req'[r].res.status = 401)
          /\ \A c \in Clients :
                (sessions[c] = EmptySession /\ sessions'[c] # EmptySession)
                => \E g \in Slots : req[g].client = c /\ Succeeds(g)]_vars

\* a CurrentUser that found its user gone, and a later Apply of the same
\* client, which got no session and was answered 401
C11_Witness ==
    \E r1, r2 \in Slots :
        /\ r1 < r2
        /\ req[r1].op = "me" /\ req[r1].res = Res(401, "User not found")
        /\ req[r2].client = req[r1].client
        /\ req[r2].op = "apply" /\ req[r2].session.userId = 0
        /\ req[r2].res = Res(401, "Authentication required")

====
